---- MODULE Spec2Model ----
(***************************************************************************)
(* Model of gladius' statistics accumulator (src/src/statistics.rs):       *)
(* TempStatistics::update / should_take_measurement / take_measurement /   *)
(* update_from_result / finalize, Measurement::new and the Statistics      *)
(* record finalize returns.                                                *)
(*                                                                         *)
(* Time.  Durations are built as the tests of the source build them, with  *)
(* Duration::from_secs: whole seconds, no sub-second part.  A Timestamp    *)
(* (f64 seconds) is then a whole number, every value is exactly            *)
(* representable and the f64 comparisons of the source are integer         *)
(* comparisons.  measurement_interval_seconds is counted in seconds too.   *)
(*                                                                         *)
(* The caller is not constrained: elapsed times need not grow from one     *)
(* call to the next, and finalize's duration is any Duration, because the  *)
(* code accepts them all.                                                  *)
(***************************************************************************)
EXTENDS Integers, Sequences, FiniteSets, TLC

\* ------------------------------------------------------------------ bounds
\* update calls on a live accumulator (SpecLive)
MaxEvents == 2
\* update calls of a session that is finalized (Spec); finalize multiplies
\* every accumulator state by its own arguments, so sessions are kept shorter
MaxSessionEvents == 1
\* largest Duration the caller supplies, in seconds
MaxSecs == 2
\* largest input_len / text_length / current_position the caller supplies
MaxLen == 1

\* ------------------------------------------------------------ input domains
Chars == {"a", "b"}

\* crate::State, the classification a character had before it was deleted
States == {"Correct", "Wrong", "Corrected"}

\* crate::CharacterResult: Deleted(State) | Wrong | Corrected | Correct
CharacterResults ==
    {[kind |-> k, state |-> "-"] : k \in {"Wrong", "Corrected", "Correct"}}
        \cup {[kind |-> "Deleted", state |-> s] : s \in States}

\* Duration::from_secs
from_secs(s) == [secs |-> s, nanos |-> 0]

Durations == {from_secs(s) : s \in 0..MaxSecs}

\* Duration::as_secs_f64: secs + nanos / 1e9, where nanos is 0 for every
\* Duration of the model
as_secs_f64(d) == d.secs

\* usize values handed in by the caller (input_len, text_length, current_position)
Lengths == 0..MaxLen

\* Configuration::measurement_interval_seconds (> 0): the default of one
\* second, and two seconds
Intervals == {1, 2}

\* Option<T>: None is <<>>, Some(x) is <<x>>
None == <<>>
Some(x) == <<x>>

\* ------------------------------------------------- crate::math, black boxes
\* The formulas live in crate::math; each is represented by the term of its
\* arguments, so two metric values are equal exactly when they were computed
\* from equal arguments.
\* timestamp / 60.0
Minutes(timestamp) == [num |-> timestamp, den |-> 60]

WpmCalculate(total_chars, errors, corrections, minutes) ==
    [total_chars |-> total_chars, errors |-> errors,
     corrections |-> corrections, minutes |-> minutes]

IpmCalculate(adds, total_chars, minutes) ==
    [adds |-> adds, total_chars |-> total_chars, minutes |-> minutes]

AccuracyCalculate(input_len, errors, corrections) ==
    [input_len |-> input_len, errors |-> errors, corrections |-> corrections]

ConsistencyCalculate(wpm_measurements) == [samples |-> wpm_measurements]

\* ------------------------------------------------------------------- state
VARIABLES
    measurements,       \* TempStatistics::measurements : Vec<Measurement>
    input_history,      \* TempStatistics::input_history : Vec<Input>
    counters,           \* TempStatistics::counters : CounterData
    last_measurement,   \* TempStatistics::last_measurement : Option<Timestamp>
    config,             \* the session's Configuration (measurement interval)
    stats,              \* Option<Statistics>: None until finalize consumed self
    update_calls,       \* the caller: number of update calls made so far
    panicked            \* finalize's unwrap() of measurements.last() failed

vars == <<measurements, input_history, counters, last_measurement, config,
          stats, update_calls, panicked>>

\* HashMap<K, usize> as a function whose domain is the set of present keys
EmptyMap == <<>>

\* CounterData::default()
CounterDataDefault ==
    [char_errors |-> EmptyMap, word_errors |-> EmptyMap,
     adds |-> 0, deletes |-> 0, errors |-> 0,
     corrects |-> 0, corrections |-> 0, wrong_deletes |-> 0]

\* variant: map.insert(key, 1)
EntryIncrement_Insert(map, key) ==
    [k \in (DOMAIN map) \cup {key} |-> IF k = key THEN 1 ELSE map[k]]

\* *map.entry(key).or_insert(0) += 1
EntryIncrement(map, key) ==
    IF key \in DOMAIN map
        THEN [map EXCEPT ![key] = @ + 1]
        ELSE [k \in (DOMAIN map) \cup {key} |-> IF k = key THEN 1 ELSE map[k]]

\* ---------------------------------------------------------- Measurement::new
\* variant: consistency is computed from the previous measurements only
MeasurementNew_PreviousOnly(timestamp, input_len, previous_measurements, history, adds, errors, corrections) ==
    LET minutes == Minutes(timestamp)
        wpm == WpmCalculate(Len(history), errors, corrections, minutes)
        ipm == IpmCalculate(adds, Len(history), minutes)
        accuracy == AccuracyCalculate(input_len, errors, corrections)
        all_wpm_measurements ==
            [k \in 1..Len(previous_measurements) |-> previous_measurements[k].wpm]
        consistency == ConsistencyCalculate(all_wpm_measurements)
    IN  [timestamp |-> timestamp, wpm |-> wpm, ipm |-> ipm,
         accuracy |-> accuracy, consistency |-> consistency]

MeasurementNew(timestamp, input_len, previous_measurements, history, adds, errors, corrections) ==
    LET minutes == Minutes(timestamp)
        wpm == WpmCalculate(Len(history), errors, corrections, minutes)
        ipm == IpmCalculate(adds, Len(history), minutes)
        accuracy == AccuracyCalculate(input_len, errors, corrections)
        all_wpm_measurements ==
            [k \in 1..Len(previous_measurements) |-> previous_measurements[k].wpm]
                \o <<wpm>>
        consistency == ConsistencyCalculate(all_wpm_measurements)
    IN  [timestamp |-> timestamp, wpm |-> wpm, ipm |-> ipm,
         accuracy |-> accuracy, consistency |-> consistency]

\* ------------------------------------------------------- the accumulator
\* self: the TempStatistics the methods below read and write
Self ==
    [measurements |-> measurements, input_history |-> input_history,
     counters |-> counters, last_measurement |-> last_measurement]

\* ------------------------------------- TempStatistics::should_take_measurement
\* variant: both comparisons strict
should_take_measurement_Strict(self, current_timestamp, interval_seconds) ==
    IF self.last_measurement # None
        THEN current_timestamp - self.last_measurement[1] > interval_seconds
        ELSE current_timestamp > interval_seconds

\* variant: the previous measurement is not consulted
should_take_measurement_IgnoreLast(self, current_timestamp, interval_seconds) ==
    current_timestamp >= interval_seconds

should_take_measurement(self, current_timestamp, interval_seconds) ==
    IF self.last_measurement # None
        THEN current_timestamp - self.last_measurement[1] >= interval_seconds
        ELSE current_timestamp >= interval_seconds

\* -------------------------------------------- TempStatistics::take_measurement
\* variant: last_measurement is not written
take_measurement_KeepLast(self, timestamp, input_len) ==
    [self EXCEPT
        !.measurements =
            Append(@, MeasurementNew(timestamp, input_len, self.measurements,
                                     self.input_history, self.counters.adds,
                                     self.counters.errors, self.counters.corrections)),
        !.last_measurement = @]

\* variant: the newest measurement takes the place of the one before
take_measurement_ReplaceLast(self, timestamp, input_len) ==
    [self EXCEPT
        !.measurements =
            (IF Len(@) = 0 THEN @ ELSE SubSeq(@, 1, Len(@) - 1))
                \o <<MeasurementNew(timestamp, input_len, self.measurements,
                                    self.input_history, self.counters.adds,
                                    self.counters.errors, self.counters.corrections)>>,
        !.last_measurement = Some(timestamp)]

\* variant: nothing is pushed at timestamp zero
take_measurement_SkipAtZero(self, timestamp, input_len) ==
    [self EXCEPT
        !.measurements =
            IF timestamp = 0 THEN @
            ELSE Append(@, MeasurementNew(timestamp, input_len, self.measurements,
                                          self.input_history, self.counters.adds,
                                          self.counters.errors, self.counters.corrections)),
        !.last_measurement = Some(timestamp)]

take_measurement(self, timestamp, input_len) ==
    [self EXCEPT
        !.measurements =
            Append(@, MeasurementNew(timestamp, input_len, self.measurements,
                                     self.input_history, self.counters.adds,
                                     self.counters.errors, self.counters.corrections)),
        !.last_measurement = Some(timestamp)]

\* ------------------------------------------ TempStatistics::update_from_result
\* variant: a correction is not counted as an added character
CountResult_CorrectedNotAdded(c, char, result) ==
    CASE result.kind = "Deleted" ->
            [c EXCEPT !.deletes = @ + 1,
                      !.wrong_deletes =
                          IF result.state \in {"Correct", "Corrected"}
                              THEN @ + 1 ELSE @]
      [] result.kind = "Wrong" ->
            [c EXCEPT !.errors = @ + 1,
                      !.adds = @ + 1,
                      !.char_errors = EntryIncrement(@, char)]
      [] result.kind = "Corrected" ->
            [c EXCEPT !.corrections = @ + 1]
      [] result.kind = "Correct" ->
            [c EXCEPT !.corrects = @ + 1, !.adds = @ + 1]

\* variant: a delete takes back what the deleted character had counted
CountResult_DeleteUncounts(c, char, result) ==
    CASE result.kind = "Deleted" ->
            [c EXCEPT !.deletes = @ + 1,
                      !.wrong_deletes =
                          IF result.state \in {"Correct", "Corrected"}
                              THEN @ + 1 ELSE @,
                      !.adds = IF @ > 0 THEN @ - 1 ELSE @,
                      !.corrects =
                          IF result.state = "Correct" /\ @ > 0 THEN @ - 1 ELSE @,
                      !.corrections =
                          IF result.state = "Corrected" /\ @ > 0 THEN @ - 1 ELSE @,
                      !.errors =
                          IF result.state = "Wrong" /\ @ > 0 THEN @ - 1 ELSE @]
      [] result.kind = "Wrong" ->
            [c EXCEPT !.errors = @ + 1,
                      !.adds = @ + 1,
                      !.char_errors = EntryIncrement(@, char)]
      [] result.kind = "Corrected" ->
            [c EXCEPT !.corrections = @ + 1, !.adds = @ + 1]
      [] result.kind = "Correct" ->
            [c EXCEPT !.corrects = @ + 1, !.adds = @ + 1]

\* variant: every delete counts as a wrong delete
CountResult_EveryDeleteWrong(c, char, result) ==
    CASE result.kind = "Deleted" ->
            [c EXCEPT !.deletes = @ + 1, !.wrong_deletes = @ + 1]
      [] result.kind = "Wrong" ->
            [c EXCEPT !.errors = @ + 1,
                      !.adds = @ + 1,
                      !.char_errors = EntryIncrement(@, char)]
      [] result.kind = "Corrected" ->
            [c EXCEPT !.corrections = @ + 1, !.adds = @ + 1]
      [] result.kind = "Correct" ->
            [c EXCEPT !.corrects = @ + 1, !.adds = @ + 1]

\* the counters after the match on the result
CountResult(c, char, result) ==
    CASE result.kind = "Deleted" ->
            [c EXCEPT !.deletes = @ + 1,
                      !.wrong_deletes =
                          IF result.state \in {"Correct", "Corrected"}
                              THEN @ + 1 ELSE @]
      [] result.kind = "Wrong" ->
            [c EXCEPT !.errors = @ + 1,
                      !.adds = @ + 1,
                      !.char_errors = EntryIncrement(@, char)]
      [] result.kind = "Corrected" ->
            [c EXCEPT !.corrections = @ + 1, !.adds = @ + 1]
      [] result.kind = "Correct" ->
            [c EXCEPT !.corrects = @ + 1, !.adds = @ + 1]

\* variant: deletes are kept out of the history
PushInput_SkipDeleted(history, char, result, timestamp) ==
    IF result.kind = "Deleted" THEN history
    ELSE Append(history, [timestamp |-> timestamp, char |-> char, result |-> result])

\* the history after self.input_history.push(Input { .. })
PushInput(history, char, result, timestamp) ==
    Append(history, [timestamp |-> timestamp, char |-> char, result |-> result])

update_from_result(self, char, result, timestamp) ==
    [self EXCEPT
        !.counters = CountResult(@, char, result),
        !.input_history = PushInput(@, char, result, timestamp)]

\* -------------------------------------------------------------------- Init
\* TempStatistics::default(), held by a caller that has made no call yet
Init ==
    /\ measurements = <<>>
    /\ input_history = <<>>
    /\ counters = CounterDataDefault
    /\ last_measurement = None
    /\ config \in Intervals
    /\ stats = None
    /\ update_calls = 0
    /\ panicked = FALSE

\* self, written back
Store(self) ==
    /\ measurements' = self.measurements
    /\ input_history' = self.input_history
    /\ counters' = self.counters
    /\ last_measurement' = self.last_measurement

\* ---------------------------------------------------- TempStatistics::update
\* variant: the measurement is taken before the event is recorded
Update_MeasureFirst(char, result, input_len, elapsed) ==
    /\ stats = None
    /\ ~panicked
    /\ update_calls < MaxEvents
    /\ update_calls' = update_calls + 1
    /\ LET timestamp == as_secs_f64(elapsed)
           measured ==
               IF should_take_measurement(Self, timestamp, config)
                   THEN take_measurement(Self, timestamp, input_len)
                   ELSE Self
       IN  Store(update_from_result(measured, char, result, timestamp))
    /\ UNCHANGED <<config, stats, panicked>>

Update(char, result, input_len, elapsed) ==
    /\ stats = None
    /\ ~panicked
    /\ update_calls < MaxEvents
    /\ update_calls' = update_calls + 1
    /\ LET timestamp == as_secs_f64(elapsed)
           recorded == update_from_result(Self, char, result, timestamp)
       IN  IF should_take_measurement(recorded, timestamp, config)
               THEN Store(take_measurement(recorded, timestamp, input_len))
               ELSE Store(recorded)
    /\ UNCHANGED <<config, stats, panicked>>

\* -------------------------------------------------- TempStatistics::finalize
\* variant: plain subtraction
saturating_sub_Plain(a, b) == a - b

\* usize::saturating_sub
saturating_sub(a, b) == IF a >= b THEN a - b ELSE 0

\* variant: the first measurement is read
LastCopied_First(ms) == IF Len(ms) = 0 THEN None ELSE Some(ms[1])

\* <[Measurement]>::last().copied()
LastCopied(ms) == IF Len(ms) = 0 THEN None ELSE Some(ms[Len(ms)])

\* variant: the Statistics starts from fresh counters
BuildStatistics_FreshCounters(self, duration, text_length, current_position) ==
    LET missing_characters == saturating_sub(text_length, current_position)
        last == LastCopied(self.measurements)
    IN  IF last = None THEN None
        ELSE Some([wpm |-> last[1].wpm,
                   ipm |-> last[1].ipm,
                   accuracy |-> last[1].accuracy,
                   consistency |-> last[1].consistency,
                   duration |-> duration,
                   measurements |-> self.measurements,
                   input_history |-> self.input_history,
                   counters |-> CounterDataDefault,
                   input_length |-> text_length,
                   missing_characters |-> missing_characters])

\* The Statistics finalize builds from the accumulator once the final
\* measurement is in; None when the unwrap() of the last measurement panics.
BuildStatistics(self, duration, text_length, current_position) ==
    LET missing_characters == saturating_sub(text_length, current_position)
        last == LastCopied(self.measurements)
    IN  IF last = None THEN None
        ELSE Some([wpm |-> last[1].wpm,
                   ipm |-> last[1].ipm,
                   accuracy |-> last[1].accuracy,
                   consistency |-> last[1].consistency,
                   duration |-> duration,
                   measurements |-> self.measurements,
                   input_history |-> self.input_history,
                   counters |-> self.counters,
                   input_length |-> text_length,
                   missing_characters |-> missing_characters])

\* variant: the final measurement is subject to the interval check, unless
\* it would be the only one
Finalize_RespectInterval(duration, text_length, current_position) ==
    /\ stats = None
    /\ ~panicked
    /\ LET total_time == as_secs_f64(duration)
           measured ==
               IF measurements = <<>>
                      \/ should_take_measurement(Self, total_time, config)
                   THEN take_measurement(Self, total_time, current_position)
                   ELSE Self
           built == BuildStatistics(measured, duration, text_length, current_position)
       IN  /\ Store(measured)
           /\ stats' = built
           /\ panicked' = (built = None)
    /\ UNCHANGED <<config, update_calls>>

\* variant: the final timestamp is the sub-second part of the duration
Finalize_SubsecOnly(duration, text_length, current_position) ==
    /\ stats = None
    /\ ~panicked
    /\ LET total_time == duration.nanos
           measured == take_measurement(Self, total_time, current_position)
           built == BuildStatistics(measured, duration, text_length, current_position)
       IN  /\ Store(measured)
           /\ stats' = built
           /\ panicked' = (built = None)
    /\ UNCHANGED <<config, update_calls>>

\* finalize consumes self: the accumulator's fields stay as the final
\* take_measurement left them and are moved into the Statistics; no update
\* follows.
Finalize(duration, text_length, current_position) ==
    /\ stats = None
    /\ ~panicked
    /\ LET total_time == as_secs_f64(duration)
           measured == take_measurement(Self, total_time, current_position)
           built == BuildStatistics(measured, duration, text_length, current_position)
       IN  /\ Store(measured)
           /\ stats' = built
           /\ panicked' = (built = None)
    /\ UNCHANGED <<config, update_calls>>

UpdateStep ==
    \E char \in Chars, result \in CharacterResults,
       input_len \in Lengths, elapsed \in Durations :
        Update(char, result, input_len, elapsed)

FinalizeStep ==
    \E duration \in Durations, text_length \in Lengths, current_position \in Lengths :
        Finalize(duration, text_length, current_position)

\* a whole session: at most MaxSessionEvents updates, then finalize
SessionUpdateStep == update_calls < MaxSessionEvents /\ UpdateStep

Next == SessionUpdateStep \/ FinalizeStep

Spec == Init /\ [][Next]_vars

\* the live accumulator: update calls only
NextLive == UpdateStep

SpecLive == Init /\ [][NextLive]_vars

\* ================================================================== claims
\* the Statistics finalize returned
Summary == stats[1]

Finalized == stats # None

\* the last element of a non-empty sequence
Last(seq) == seq[Len(seq)]

\* number of history events satisfying P
CountEvents(history, P(_)) ==
    Cardinality({k \in 1..Len(history) : P(history[k])})

IsDeleted(e) == e.result.kind = "Deleted"

IsWrongDelete(e) ==
    e.result.kind = "Deleted" /\ e.result.state \in {"Correct", "Corrected"}

\* timestamps of a measurement sequence never go down
NonDecreasing(ms) ==
    \A k \in 1..(Len(ms) - 1) : ms[k].timestamp <= ms[k + 1].timestamp

\* a step of the accumulator that was an update call
IsUpdate == update_calls' = update_calls + 1

\* a step in which finalize returned its Statistics
IsFinalize == ~Finalized /\ Finalized'

\* the event an update call just recorded
NewEvent == Last(input_history')

\* C1: after every update, adds = errors + corrections + corrects.
C1_AddsAreClassified ==
    counters.adds = counters.errors + counters.corrections + counters.corrects

C1_Witness ==
    /\ counters.corrections = 1
    /\ counters.errors = 1
    /\ counters.adds = 2

\* C2: after N update calls the history has exactly N entries, deletes
\* included and whether or not a measurement was taken, and finalize hands
\* over a history of that length.
C2_HistoryLength ==
    /\ Len(input_history) = update_calls
    /\ Finalized => Len(Summary.input_history) = update_calls

\* a delete that took a measurement, handed over by finalize
C2_Witness ==
    /\ Finalized
    /\ update_calls = 1
    /\ Len(Summary.input_history) = 1
    /\ IsDeleted(Summary.input_history[1])
    /\ Len(Summary.measurements) = 2

\* C3: finalize never fails to read the last measurement: it returns a
\* Statistics with at least one measurement, and for a session without
\* events exactly one measurement and an empty history.
C3_FinalizeHasMeasurement ==
    /\ ~panicked
    /\ Finalized =>
          /\ Len(Summary.measurements) >= 1
          /\ update_calls = 0 =>
                /\ Len(Summary.measurements) = 1
                /\ Summary.input_history = <<>>

C3_Witness ==
    /\ Finalized
    /\ update_calls = 0
    /\ Summary.duration = from_secs(0)
    /\ Len(Summary.measurements) = 1

\* C4: an update call at timestamp t with interval i appends exactly one
\* measurement when (no measurement yet and t >= i) or (last measurement at
\* l and t - l >= i), and none otherwise.
C4_SamplingPolicy ==
    [][IsUpdate =>
        LET t == NewEvent.timestamp
            due == \/ last_measurement = None /\ t >= config
                   \/ last_measurement # None /\ t - last_measurement[1] >= config
        IN  IF due
                THEN /\ Len(measurements') = Len(measurements) + 1
                     /\ SubSeq(measurements', 1, Len(measurements)) = measurements
                     /\ Last(measurements').timestamp = t
                ELSE measurements' = measurements]_vars

\* a first call after two intervals took one measurement, a second call at
\* the same timestamp took none
C4_Witness ==
    /\ config = 1
    /\ update_calls = 2
    /\ input_history[1].timestamp = 2
    /\ input_history[2].timestamp = 2
    /\ Len(measurements) = 1

C6_AutomaticSpacing ==
    \A k \in 1..Len(measurements) :
        IF k = 1
            THEN measurements[k].timestamp >= config
            ELSE measurements[k].timestamp - measurements[k - 1].timestamp >= config

\* two measurements taken by update calls, exactly the interval apart
C6_Witness ==
    /\ Len(measurements) = 2
    /\ measurements[1].timestamp = config
    /\ measurements[2].timestamp - measurements[1].timestamp = config

\* C7: finalize appends exactly one measurement whatever the interval check
\* says: one more than the accumulator held, the last at total_duration in
\* seconds and computed with input_len = current_position.
C7_ForcedFinalMeasurement ==
    [][IsFinalize =>
        /\ Len(Summary'.measurements) = Len(measurements) + 1
        /\ SubSeq(Summary'.measurements, 1, Len(measurements)) = measurements
        /\ Last(Summary'.measurements).timestamp = as_secs_f64(Summary'.duration)
        /\ \A cp \in Lengths :
              Finalize(Summary'.duration, Summary'.input_length, cp) =>
                  Last(Summary'.measurements).accuracy =
                      AccuracyCalculate(cp, counters.errors, counters.corrections)]_vars

\* the final measurement falls on the timestamp of the one before
C7_Witness ==
    /\ Finalized
    /\ Len(Summary.measurements) = 2
    /\ Summary.measurements[2].timestamp = Summary.measurements[1].timestamp
    /\ Summary.measurements[2].accuracy.input_len = 1

\* C8: missing_characters = max(0, text_length - current_position) and
\* input_length = text_length, whatever was processed before.
C8_MissingCharacters ==
    [][IsFinalize =>
        \A tl \in Lengths, cp \in Lengths :
            Finalize(Summary'.duration, tl, cp) =>
                /\ Summary'.missing_characters = (IF tl - cp > 0 THEN tl - cp ELSE 0)
                /\ Summary'.missing_characters >= 0
                /\ Summary'.input_length = tl]_vars

\* current_position beyond text_length, after an event
C8_Witness ==
    /\ Finalized
    /\ update_calls = 1
    /\ Summary.input_length = 0
    /\ Last(Summary.measurements).accuracy.input_len = 1
    /\ Summary.missing_characters = 0

\* the counters the policy table gives for an event, from counters c
C9_Table(c, e) ==
    LET k == e.result.kind
        added == IF k = "Deleted" THEN 0 ELSE 1
    IN  [char_errors |->
             IF k = "Wrong"
                 THEN [ch \in (DOMAIN c.char_errors) \cup {e.char} |->
                          IF ch = e.char
                              THEN (IF ch \in DOMAIN c.char_errors
                                        THEN c.char_errors[ch] ELSE 0) + 1
                              ELSE c.char_errors[ch]]
                 ELSE c.char_errors,
         word_errors |-> c.word_errors,
         adds |-> c.adds + added,
         deletes |-> c.deletes + (IF k = "Deleted" THEN 1 ELSE 0),
         errors |-> c.errors + (IF k = "Wrong" THEN 1 ELSE 0),
         corrects |-> c.corrects + (IF k = "Correct" THEN 1 ELSE 0),
         corrections |-> c.corrections + (IF k = "Corrected" THEN 1 ELSE 0),
         wrong_deletes |-> c.wrong_deletes + (IF IsWrongDelete(e) THEN 1 ELSE 0)]

\* C9: each update changes exactly the counters the policy table lists for
\* its outcome and no other; word_errors is never changed.
C9_CounterFrame ==
    [][IsUpdate => counters' = C9_Table(counters, NewEvent)]_vars

\* a delete after a wrong character: errors and adds stay
C9_Witness ==
    /\ update_calls = 2
    /\ input_history[1].result.kind = "Wrong"
    /\ input_history[2].result = [kind |-> "Deleted", state |-> "Wrong"]
    /\ counters.adds = 1
    /\ counters.errors = 1
    /\ counters.deletes = 1
    /\ counters.char_errors = [ch \in {"b"} |-> 1]

\* C10: deletes counts the Deleted events of the history, wrong_deletes
\* those whose prior state was Correct or Corrected, so wrong_deletes <=
\* deletes.
C10_DeleteCounters ==
    /\ counters.deletes = CountEvents(input_history, IsDeleted)
    /\ counters.wrong_deletes = CountEvents(input_history, IsWrongDelete)
    /\ counters.wrong_deletes <= counters.deletes

\* one delete of a wrong character, one of a correct character
C10_Witness ==
    /\ update_calls = 2
    /\ input_history[1].result = [kind |-> "Deleted", state |-> "Wrong"]
    /\ input_history[2].result = [kind |-> "Deleted", state |-> "Correct"]
    /\ counters.deletes = 2
    /\ counters.wrong_deletes = 1

\* C11: the headline wpm, ipm, accuracy and consistency of the Statistics are
\* those of the last element of its own measurements.
C11_HeadlineIsLastMeasurement ==
    Finalized =>
        LET m == Last(Summary.measurements)
        IN  /\ Summary.wpm = m.wpm
            /\ Summary.ipm = m.ipm
            /\ Summary.accuracy = m.accuracy
            /\ Summary.consistency = m.consistency

\* the final measurement differs from the one before in every metric
C11_Witness ==
    /\ Finalized
    /\ Len(Summary.measurements) = 2
    /\ Summary.measurements[1].wpm # Summary.measurements[2].wpm
    /\ Summary.measurements[1].ipm # Summary.measurements[2].ipm
    /\ Summary.measurements[1].accuracy # Summary.measurements[2].accuracy
    /\ Summary.measurements[1].consistency # Summary.measurements[2].consistency

\* the wpm values of the first k measurements, in order
WpmPrefix(ms, k) == [j \in 1..k |-> ms[j].wpm]

\* C12: the consistency of the measurement at index k, taken by update or
\* forced by finalize, is f_consistency of the wpm values of measurements
\* 1..k in order, whatever was taken after it.
C12_ConsistencyOverPrefix ==
    \A k \in 1..Len(measurements) :
        measurements[k].consistency =
            ConsistencyCalculate(WpmPrefix(measurements, k))

\* an earlier measurement and the forced one, with different wpm
C12_Witness ==
    /\ Finalized
    /\ Len(measurements) = 2
    /\ measurements[1].wpm # measurements[2].wpm
    /\ Len(measurements[1].consistency.samples) = 1
    /\ Len(measurements[2].consistency.samples) = 2

\* C13: finalize hands the accumulated state over unchanged: the history
\* and the counters as they were, the measurements followed by the one
\* forced measurement, and the duration it was given.
C13_FinalizeFrame ==
    [][IsFinalize =>
        /\ Summary'.input_history = input_history
        /\ Summary'.counters = counters
        /\ Summary'.measurements =
               measurements \o <<Last(Summary'.measurements)>>
        /\ \A d \in Durations, cp \in Lengths :
              Finalize(d, Summary'.input_length, cp) => Summary'.duration = d]_vars

\* a session with one wrong character that took a measurement
C13_Witness ==
    /\ Finalized
    /\ Len(Summary.input_history) = 1
    /\ Summary.counters.errors = 1
    /\ Summary.counters.char_errors = [ch \in {"a"} |-> 1]
    /\ Len(Summary.measurements) = 2
    /\ Summary.duration = from_secs(2)

\* C14: within one update call the event is recorded before the measurement
\* is decided and taken: the measurement of that call is computed from the
\* history and counters that include the event, at the call's timestamp
\* and input_len.
C14_EventRecordedFirst ==
    [][IsUpdate /\ Len(measurements') = Len(measurements) + 1 =>
        LET m == Last(measurements')
            minutes == Minutes(NewEvent.timestamp)
        IN  /\ Len(input_history') = Len(input_history) + 1
            /\ m.wpm = WpmCalculate(Len(input_history'), counters'.errors,
                                    counters'.corrections, minutes)
            /\ m.ipm = IpmCalculate(counters'.adds, Len(input_history'), minutes)
            /\ \A il \in Lengths :
                  Update(NewEvent.char, NewEvent.result, il,
                         from_secs(NewEvent.timestamp)) =>
                      m.accuracy = AccuracyCalculate(il, counters'.errors,
                                                     counters'.corrections)]_vars

\* a delete, then a wrong character whose call took the measurement
C14_Witness ==
    /\ update_calls = 2
    /\ IsDeleted(input_history[1])
    /\ input_history[2].result.kind = "Wrong"
    /\ Len(measurements) = 1
    /\ measurements[1].timestamp = input_history[2].timestamp
    /\ measurements[1].wpm.total_chars = 2
    /\ measurements[1].wpm.errors = 1
    /\ measurements[1].ipm.adds = 1

\* seq is old with n more elements at the end
Extends(seq, old, n) ==
    /\ Len(seq) = Len(old) + n
    /\ SubSeq(seq, 1, Len(old)) = old

MaxElapsed ==
    CHOOSE t \in {input_history[k].timestamp : k \in 1..Len(input_history)} :
        \A k \in 1..Len(input_history) : input_history[k].timestamp <= t

\* C16: before finalize the k-th measurement has a timestamp of at least
\* k intervals, so the number of measurements is at most the largest
\* elapsed value divided by the interval, however many updates there were.
C16_BoundedByElapsed ==
    ~Finalized =>
        /\ \A k \in 1..Len(measurements) : measurements[k].timestamp >= k * config
        /\ Len(measurements) > 0 => Len(measurements) <= MaxElapsed \div config
        /\ Len(input_history) = 0 => Len(measurements) = 0

\* two updates inside the same interval: one measurement for two events
C16_Witness ==
    /\ config = 2
    /\ update_calls = 2
    /\ input_history[1].timestamp = 2
    /\ input_history[2].timestamp = 2
    /\ Len(measurements) = 1

\* the integer counters of CounterData
C17_Fields == {"adds", "deletes", "errors", "corrects", "corrections", "wrong_deletes"}

\* C17: all counters start at zero, no update decreases a counter or a
\* char_errors entry, and an update adds at most 1 to an integer counter.
C17_CountersMonotone ==
    /\ \A f \in C17_Fields : counters[f] = 0
    /\ counters.char_errors = EmptyMap
    /\ [][IsUpdate =>
            /\ \A f \in C17_Fields :
                  counters'[f] >= counters[f] /\ counters'[f] <= counters[f] + 1
            /\ \A ch \in DOMAIN counters.char_errors :
                  /\ ch \in DOMAIN counters'.char_errors
                  /\ counters'.char_errors[ch] >= counters.char_errors[ch]]_vars

\* a second error on the same character
C17_Witness ==
    /\ counters.errors = 2
    /\ counters.char_errors = [ch \in {"a"} |-> 2]

\* C18: last_measurement is None exactly while measurements is empty, and
\* otherwise the timestamp of the last element of measurements.
C18_LastMeasurementTracksSequence ==
    IF measurements = <<>>
        THEN last_measurement = None
        ELSE last_measurement = Some(Last(measurements).timestamp)

\* a later update with a smaller elapsed value took no measurement
C18_Witness ==
    /\ update_calls = 2
    /\ Len(measurements) = 1
    /\ last_measurement = Some(2)
    /\ input_history[2].timestamp = 0

\* C19: every event adds 1 to exactly one of adds and deletes, so their sum
\* is the length of the history.
C19_AddsPlusDeletes ==
    counters.adds + counters.deletes = Len(input_history)

C19_Witness ==
    /\ counters.adds = 1
    /\ counters.deletes = 1
    /\ Len(input_history) = 2
    /\ IsDeleted(input_history[1])

\* the sum of the values of a map over a set of its keys
RECURSIVE SumOver(_, _)
SumOver(map, keys) ==
    IF keys = {} THEN 0
    ELSE LET k == CHOOSE x \in keys : TRUE
         IN  map[k] + SumOver(map, keys \ {k})

\* number of Wrong events of the history on character ch
WrongEvents(ch) ==
    Cardinality({k \in 1..Len(input_history) :
                    /\ input_history[k].result.kind = "Wrong"
                    /\ input_history[k].char = ch})

\* C20: char_errors has an entry exactly for the characters typed wrong,
\* each entry is the number of Wrong events on that character, and the
\* entries sum to errors.
C20_CharErrorsMatchHistory ==
    /\ DOMAIN counters.char_errors = {ch \in Chars : WrongEvents(ch) > 0}
    /\ \A ch \in DOMAIN counters.char_errors :
          counters.char_errors[ch] = WrongEvents(ch)
    /\ SumOver(counters.char_errors, DOMAIN counters.char_errors) = counters.errors

\* the same character typed wrong twice
C20_Witness ==
    /\ update_calls = 2
    /\ WrongEvents("b") = 2
    /\ counters.char_errors = [ch \in {"b"} |-> 2]
    /\ counters.errors = 2

====
